---------------------------- MODULE Spec2Model ----------------------------
(***************************************************************************)
(* State-machine model of cura/UI/WelcomePagesModel.py: the welcome-wizard *)
(* page sequencer (current page index, stack of previous page indices,     *)
(* the two Qt signals) and its slots; and of                               *)
(* plugins/PerObjectSettingsTool/PerObjectSettingsTool.py: the flags of    *)
(* the tool, the handlers of its three signals and the toolEnabledChanged  *)
(* it emits.                                                               *)
(*                                                                         *)
(* Page indices are 0-based as in the Python code; a TLA+ sequence is      *)
(* 1-based, so the page with index i is items[i + 1].                      *)
(***************************************************************************)
EXTENDS Integers, Sequences, FiniteSets

VARIABLES
    items,                        \* ListModel._items: the page list
    current_page_index,           \* self._current_page_index
    previous_page_indices_stack,  \* self._previous_page_indices_stack
    signals,                      \* signals emitted by the last slot call, in order
    last,                         \* the last slot call: its name, argument, outcome,
                                  \* and the index and stack it started from
    hung,                         \* TRUE once a call entered a loop it never leaves
    phase,                        \* observer: "fwd", "back" or "off" (see below)
    after,                        \* observer: current index after each forward call
    finishes,                     \* observer: forward calls that emitted allFinished
    backs,                        \* observer: current index after each backward call
    pc,                           \* "loop" while goToNextPage is followed pass by pass
    loop_current_index,           \* the local current_index of that goToNextPage call
    advanced_mode,                \* PerObjectSettingsTool._advanced_mode
    multi_extrusion,              \* PerObjectSettingsTool._multi_extrusion
    single_model_selected,        \* PerObjectSettingsTool._single_model_selected
    active_mode,                  \* the preference "cura/active_mode"
    global_container_stack,       \* Application.getGlobalContainerStack()
    selected_objects,             \* Selection.getAllSelectedObjects(): isGroup of each
    active_extruder,              \* per scene node: the id last given to setActiveExtruder
    old_extruder_pos,             \* per scene node: getActiveExtruderPosition as last read
    seen_stack,                   \* observer: the last global stack that was not None
    tool_signals,                 \* toolEnabledChanged values emitted by the last event
    tool_enabled,                 \* observer: the value of the latest toolEnabledChanged
    tool_op                       \* the last event the tool handled

\* the variables of the call followed pass by pass
loopVars == <<pc, loop_current_index>>

\* the variables of the welcome pages
pageVars == <<items, current_page_index, previous_page_indices_stack, signals,
              last, hung, phase, after, finishes, backs, pc, loop_current_index>>

\* the variables of the per-object settings tool and of what it reads
toolVars == <<advanced_mode, multi_extrusion, single_model_selected, active_mode,
              global_container_stack, selected_objects, active_extruder,
              old_extruder_pos, seen_stack, tool_signals, tool_enabled, tool_op>>

vars == <<pageVars, toolVars>>

-----------------------------------------------------------------------------
(* Bounds of the model. *)

\* largest number of pages handed to setItems
MaxPages == 3

\* largest number of entries explored on the stack of previous page indices
MaxHistory == 2

\* largest number of extruder positions of a machine
MaxExtruders == 2

\* largest number of objects selected at once
MaxSelected == 2

-----------------------------------------------------------------------------
(* Values. *)

\* Python None as the result of getPageIndexById / as an absent from_index
None == -1

\* an absent (or empty) "next_page_id": the test "if next_page_id:" fails
NoId == 0

AllFinished == "allFinished"

CurrentPageIndexChanged == "currentPageIndexChanged"

\* Page lists of n pages. The page with index i has the unique id i + 1; a
\* next_page_id is absent (NoId), the id of a page, or the id n + 1 that no
\* page has. should_show is the value the page's should_show_function
\* returns (TRUE for a page without one).
PageLists(n) ==
    {[i \in 1..n |-> [id |-> i, next_page_id |-> nx[i], should_show |-> sh[i]]] :
        nx \in [1..n -> 0..(n + 1)], sh \in [1..n -> BOOLEAN]}

\* The page list [A, B(next = D), C, D] without hidden pages.
ExamplePages ==
    [i \in 1..4 |-> [id |-> i,
                     next_page_id |-> IF i = 2 THEN 4 ELSE NoId,
                     should_show |-> TRUE]]

\* The pages initialize() appends, in its order: welcome (id 1),
\* user_agreement (2), whats_new (3), data_collections (4),
\* add_network_or_local_printer (5), add_printer_by_ip (6), machine_actions
\* (7) and cloud (8). Pages 5 and 6 name machine_actions as their next page,
\* machine_actions names cloud. show_machine_actions is the value
\* shouldShowMachineActions returns.
InitializePagesAllChained(show_machine_actions) ==
    [i \in 1..8 |-> [id |-> i,
                     next_page_id |-> IF i < 8 THEN i + 1 ELSE NoId,
                     should_show |-> (i # 7) \/ show_machine_actions]]

InitializePages(show_machine_actions) ==
    [i \in 1..8 |-> [id |-> i,
                     next_page_id |-> CASE i \in {5, 6} -> 7
                                        [] i = 7 -> 8
                                        [] OTHER -> NoId,
                     should_show |-> (i # 7) \/ show_machine_actions]]

-----------------------------------------------------------------------------
(* The methods, as functions from the state at the start of the call to    *)
(* the state at its end. s = [idx, stack, sig, res]: current page index,   *)
(* stack of previous indices, signals emitted so far by this call, and the *)
(* way the call ended.                                                     *)

Min(S) == CHOOSE x \in S : \A y \in S : x <= y

getItem(index) == items[index + 1]

getPageIndexById(page_id) ==
    LET hits == {idx \in 0..(Len(items) - 1) : getItem(idx).id = page_id}
    IN  IF hits = {} THEN None ELSE Min(hits)

\* _shouldPageBeShown that does not call the should_show_function
shouldPageBeShownAlways(page_index) == page_index \in 0..(Len(items) - 1)

shouldPageBeShown(page_index) == getItem(page_index).should_show

\* _setCurrentPageIndex without the test that the index changes
setCurrentPageIndexAlways(s, page_index) ==
    [idx   |-> page_index,
     stack |-> Append(s.stack, s.idx),
     sig   |-> Append(s.sig, CurrentPageIndexChanged),
     res   |-> "moved"]

\* _setCurrentPageIndex that pushes the new index instead of the old one
setCurrentPageIndexPushesNew(s, page_index) ==
    IF page_index # s.idx
    THEN [idx   |-> page_index,
          stack |-> Append(s.stack, page_index),
          sig   |-> Append(s.sig, CurrentPageIndexChanged),
          res   |-> "moved"]
    ELSE [s EXCEPT !.res = "same"]

setCurrentPageIndex(s, page_index) ==
    IF page_index # s.idx
    THEN [idx   |-> page_index,
          stack |-> Append(s.stack, s.idx),
          sig   |-> Append(s.sig, CurrentPageIndexChanged),
          res   |-> "moved"]
    ELSE [s EXCEPT !.res = "same"]

\* resetState that forgets to clear the stack of previous indices
resetStateKeepsStack(s) ==
    [idx   |-> 0,
     stack |-> s.stack,
     sig   |-> Append(s.sig, CurrentPageIndexChanged),
     res   |-> "reset"]

resetState(s) ==
    [idx   |-> 0,
     stack |-> <<>>,
     sig   |-> Append(s.sig, CurrentPageIndexChanged),
     res   |-> "reset"]

\* atEnd that resets first and emits allFinished afterwards
atEndEmitsLast(s) ==
    LET r == resetState(s)
    IN  [r EXCEPT !.sig = Append(@, AllFinished), !.res = "finished"]

atEnd(s) ==
    [resetState([s EXCEPT !.sig = Append(@, AllFinished)]) EXCEPT !.res = "finished"]

\* loopPass with the end test one too early (next_page_index >= len - 1)
loopPassEndsEarly(current_index) ==
    IF current_index \notin 0..(Len(items) - 1)
    THEN [kind |-> "raised", index |-> None]
    ELSE
    LET next_page_id == getItem(current_index).next_page_id
        idx          == getPageIndexById(next_page_id)
        next_page_index == IF next_page_id # NoId THEN idx ELSE current_index + 1
    IN  IF next_page_id # NoId /\ idx = None
        THEN [kind |-> "unknown", index |-> None]
        ELSE IF next_page_index >= Len(items) - 1
        THEN [kind |-> "end", index |-> next_page_index]
        ELSE IF shouldPageBeShown(next_page_index)
        THEN [kind |-> "show", index |-> next_page_index]
        ELSE [kind |-> "skip", index |-> next_page_index]

\* loopPass that never looks at next_page_id
loopPassIgnoresNextId(current_index) ==
    IF current_index \notin 0..(Len(items) - 1)
    THEN [kind |-> "raised", index |-> None]
    ELSE
    LET next_page_index == current_index + 1
    IN  IF next_page_index = Len(items)
        THEN [kind |-> "end", index |-> next_page_index]
        ELSE IF shouldPageBeShown(next_page_index)
        THEN [kind |-> "show", index |-> next_page_index]
        ELSE [kind |-> "skip", index |-> next_page_index]

\* loopPass without the end test: the index one past the last page is taken
\* for a page to show
loopPassNoEndTest(current_index) ==
    IF current_index \notin 0..(Len(items) - 1)
    THEN [kind |-> "raised", index |-> None]
    ELSE
    LET next_page_id == getItem(current_index).next_page_id
        idx          == getPageIndexById(next_page_id)
        next_page_index == IF next_page_id # NoId THEN idx ELSE current_index + 1
    IN  IF next_page_id # NoId /\ idx = None
        THEN [kind |-> "unknown", index |-> None]
        ELSE IF next_page_index = Len(items) \/ shouldPageBeShown(next_page_index)
        THEN [kind |-> "show", index |-> next_page_index]
        ELSE [kind |-> "skip", index |-> next_page_index]

\* One pass of the "while True" loop of goToNextPage, entered with the local
\* variable current_index: how the pass ends, and next_page_index.
\* a pass that gives up when the candidate is the page it started from
loopPassStopsOnSelf(current_index) ==
    IF current_index \notin 0..(Len(items) - 1)
    THEN [kind |-> "raised", index |-> None]
    ELSE
    LET page_item    == getItem(current_index)
        next_page_id == page_item.next_page_id
        idx          == getPageIndexById(next_page_id)
        next_page_index == IF next_page_id # NoId THEN idx ELSE current_index + 1
    IN  IF next_page_id # NoId /\ idx = None
        THEN [kind |-> "unknown", index |-> None]
        ELSE IF next_page_index = Len(items) \/ next_page_index = current_index
        THEN [kind |-> "end", index |-> next_page_index]
        ELSE IF shouldPageBeShown(next_page_index)
        THEN [kind |-> "show", index |-> next_page_index]
        ELSE [kind |-> "skip", index |-> next_page_index]

loopPass(current_index) ==
    IF current_index \notin 0..(Len(items) - 1)
    THEN [kind |-> "raised", index |-> None]
    ELSE
    LET page_item    == getItem(current_index)
        next_page_id == page_item.next_page_id
        idx          == getPageIndexById(next_page_id)
        next_page_index == IF next_page_id # NoId THEN idx ELSE current_index + 1
    IN  IF next_page_id # NoId /\ idx = None
        THEN [kind |-> "unknown", index |-> None]
        ELSE IF next_page_index = Len(items)
        THEN [kind |-> "end", index |-> next_page_index]
        ELSE IF shouldPageBeShown(next_page_index)
        THEN [kind |-> "show", index |-> next_page_index]
        ELSE [kind |-> "skip", index |-> next_page_index]

\* The loop of goToNextPage. The only thing a pass changes is the local
\* current_index, so a loop that is still running after Len(items) + 1
\* passes has entered some pass twice with the same value and never ends.
RECURSIVE skipLoop(_, _)
skipLoop(current_index, passes_left) ==
    LET p == loopPass(current_index)
    IN  IF p.kind # "skip" THEN p
        ELSE IF passes_left = 0 THEN [kind |-> "hang", index |-> None]
        ELSE skipLoop(p.index, passes_left - 1)

\* goToNextPage that takes an unknown next_page_id for the end of the pages
goToNextPageEndsOnUnknown(s, from_index) ==
    LET current_index == IF from_index = None THEN s.idx ELSE from_index
        w == skipLoop(current_index, Len(items))
    IN  CASE w.kind = "raised"  -> [s EXCEPT !.res = "raised"]
          [] w.kind = "unknown" -> atEnd(s)
          [] w.kind = "hang"    -> [s EXCEPT !.res = "hung"]
          [] w.kind = "end"     -> atEnd(s)
          [] w.kind = "show"    -> setCurrentPageIndex(s, w.index)

goToNextPage(s, from_index) ==
    LET current_index == IF from_index = None THEN s.idx ELSE from_index
        w == skipLoop(current_index, Len(items))
    IN  CASE w.kind = "raised"  -> [s EXCEPT !.res = "raised"]
          [] w.kind = "unknown" -> [s EXCEPT !.res = "unknown_id"]
          [] w.kind = "hang"    -> [s EXCEPT !.res = "hung"]
          [] w.kind = "end"     -> atEnd(s)
          [] w.kind = "show"    -> setCurrentPageIndex(s, w.index)

\* goToPreviousPage that takes the oldest entry (popleft) instead of the newest
goToPreviousPagePopsLeft(s) ==
    IF Len(s.stack) = 0
    THEN [s EXCEPT !.res = "empty"]
    ELSE [idx   |-> s.stack[1],
          stack |-> SubSeq(s.stack, 2, Len(s.stack)),
          sig   |-> Append(s.sig, CurrentPageIndexChanged),
          res   |-> "popped"]

\* goToPreviousPage that does not go back to a page that should not be shown
goToPreviousPageSkipsHidden(s) ==
    IF Len(s.stack) = 0
    THEN [s EXCEPT !.res = "empty"]
    ELSE IF ~shouldPageBeShown(s.stack[Len(s.stack)])
    THEN [s EXCEPT !.stack = SubSeq(s.stack, 1, Len(s.stack) - 1), !.res = "popped"]
    ELSE [idx   |-> s.stack[Len(s.stack)],
          stack |-> SubSeq(s.stack, 1, Len(s.stack) - 1),
          sig   |-> Append(s.sig, CurrentPageIndexChanged),
          res   |-> "popped"]

\* goToPreviousPage that reads the newest entry without removing it
goToPreviousPageKeepsEntry(s) ==
    IF Len(s.stack) = 0
    THEN [s EXCEPT !.res = "empty"]
    ELSE [idx   |-> s.stack[Len(s.stack)],
          stack |-> s.stack,
          sig   |-> Append(s.sig, CurrentPageIndexChanged),
          res   |-> "popped"]

goToPreviousPage(s) ==
    IF Len(s.stack) = 0
    THEN [s EXCEPT !.res = "empty"]
    ELSE [idx   |-> s.stack[Len(s.stack)],
          stack |-> SubSeq(s.stack, 1, Len(s.stack) - 1),
          sig   |-> Append(s.sig, CurrentPageIndexChanged),
          res   |-> "popped"]

\* goToPage that forgets to pass from_index for a hidden page
goToPageForgetsFromIndex(s, page_id) ==
    LET page_index == getPageIndexById(page_id)
    IN  IF page_index = None
        THEN [s EXCEPT !.res = "unknown_id"]
        ELSE IF shouldPageBeShown(page_index)
        THEN setCurrentPageIndex(s, page_index)
        ELSE goToNextPage(s, None)

\* goToPage that starts the walk of goToNextPage from a visible page too
goToPageAlwaysWalks(s, page_id) ==
    LET page_index == getPageIndexById(page_id)
    IN  IF page_index = None
        THEN [s EXCEPT !.res = "unknown_id"]
        ELSE goToNextPage(s, page_index)

goToPage(s, page_id) ==
    LET page_index == getPageIndexById(page_id)
    IN  IF page_index = None
        THEN [s EXCEPT !.res = "unknown_id"]
        ELSE IF shouldPageBeShown(page_index)
        THEN setCurrentPageIndex(s, page_index)
        ELSE goToNextPage(s, page_index)

-----------------------------------------------------------------------------
(* PerObjectSettingsTool: what it reads, and its handlers as functions     *)
(* from the tool at the start of the handler to the tool at its end.       *)
(* t = [advanced_mode, multi_extrusion, single_model_selected,             *)
(* active_extruder, emitted]: the three flags, the id each scene node was  *)
(* last given by setActiveExtruder, and the values emitted with            *)
(* toolEnabledChanged so far.                                              *)

\* the nodes DepthFirstIterator finds in the scene (the loop treats every
\* node by itself, so one node stands for each of them)
SceneNodes == {"node_a"}

\* the machines a global container stack can belong to
Machines == {"machine_a", "machine_b"}

\* the extruder positions
Positions == 0..(MaxExtruders - 1)

\* the id of no stack at all
NoStackId == <<>>

\* getGlobalContainerStack() returning None
NoStack == [id |-> NoStackId, machine_extruder_count |-> 0, trains |-> {}]

\* The global container stacks: the id, the property machine_extruder_count,
\* and the positions at which ExtruderManager has an extruder stack for it
\* (the first k positions, for any k: a machine may have fewer extruder
\* stacks than machine_extruder_count says, or more).
GlobalStacks ==
    {[id |-> <<m>>, machine_extruder_count |-> c, trains |-> 0..(k - 1)] :
        m \in Machines, c \in 1..MaxExtruders, k \in 0..MaxExtruders}

\* the selections: the value of callDecoration("isGroup") of each object
Selections == UNION {[1..n -> BOOLEAN] : n \in 0..MaxSelected}

\* the keys of the preferences that change
PreferenceKeys == {"cura/active_mode", "general/language"}

\* ExtruderManager.getExtruderStack(position).getId(), NoStackId for None
getExtruderStack(stack, position) ==
    IF position \in stack.trains THEN <<stack.id[1], position>> ELSE NoStackId

\* _updateEnabled that takes a selection for a single model only when it
\* holds exactly one object
updateEnabledNeedsOne(t, selected) ==
    LET single == Len(selected) = 1 /\ ~selected[1]
    IN  [t EXCEPT !.single_model_selected = single,
                  !.emitted = Append(@, (t.advanced_mode \/ t.multi_extrusion) /\ single)]

updateEnabled(t, selected) ==
    LET single == IF Len(selected) > 1 THEN FALSE
                  ELSE IF Len(selected) = 1 /\ selected[1] THEN FALSE
                  ELSE TRUE
    IN  [t EXCEPT !.single_model_selected = single,
                  !.emitted = Append(@, (t.advanced_mode \/ t.multi_extrusion) /\ single)]

\* value: what Preferences.getValue(preference) returns
onPreferenceChanged(t, preference, value, selected) ==
    IF preference = "cura/active_mode"
    THEN updateEnabled([t EXCEPT !.advanced_mode = (value = 1)], selected)
    ELSE t

\* _onGlobalContainerChanged that gives every node the default stack
onGlobalContainerChangedAllDefault(t, stack, positions, selected) ==
    IF stack = NoStack THEN t
    ELSE
    LET multi == stack.machine_extruder_count > 1
        default_stack_id ==
            IF ~multi THEN stack.id
            ELSE IF getExtruderStack(stack, 0) # NoStackId
            THEN getExtruderStack(stack, 0)
            ELSE stack.id
    IN  updateEnabled([t EXCEPT !.multi_extrusion = multi,
                                !.active_extruder =
                                    [node \in SceneNodes |-> default_stack_id]],
                      selected)

\* stack: the global container stack; positions: what each node answers to
\* getActiveExtruderPosition
onGlobalContainerChanged(t, stack, positions, selected) ==
    IF stack = NoStack THEN t
    ELSE
    LET multi == stack.machine_extruder_count > 1
        default_stack_id ==
            IF ~multi THEN stack.id
            ELSE IF getExtruderStack(stack, 0) # NoStackId
            THEN getExtruderStack(stack, 0)
            ELSE stack.id
        new_stack_id(node) ==
            IF positions[node] # None
               /\ getExtruderStack(stack, positions[node]) # NoStackId
            THEN getExtruderStack(stack, positions[node])
            ELSE default_stack_id
    IN  updateEnabled([t EXCEPT !.multi_extrusion = multi,
                                !.active_extruder =
                                    [node \in SceneNodes |-> new_stack_id(node)]],
                      selected)

-----------------------------------------------------------------------------
(* The state machine. *)

\* the state a slot starts from
Entry ==
    [idx   |-> current_page_index,
     stack |-> previous_page_indices_stack,
     sig   |-> <<>>,
     res   |-> "none"]

\* the items are the pages of initialize()
Installed == Len(items) = 8 /\ \E show \in BOOLEAN : items = InitializePages(show)

\* The longest history explored. On the pages of initialize() every
\* goToNextPage moves forward or completes, so these calls are followed as far
\* as they go.
HistoryBound(op) ==
    IF op = "goToNextPage" /\ Installed THEN Len(items) ELSE MaxHistory

\* the state a slot leaves behind (calls that would make the history longer
\* than HistoryBound, and longer than it was, are not explored)
Leave(r, op, arg) ==
    /\ Len(r.stack) <= IF Len(previous_page_indices_stack) > HistoryBound(op)
                       THEN Len(previous_page_indices_stack)
                       ELSE HistoryBound(op)
    /\ current_page_index' = r.idx
    /\ previous_page_indices_stack' = r.stack
    /\ signals' = r.sig
    /\ last' = [op |-> op, arg |-> arg, res |-> r.res,
                idx |-> current_page_index,
                stack |-> previous_page_indices_stack]
    /\ hung' = (r.res = "hung")
    /\ UNCHANGED items

\* ... by a call taken as one step
Return(r, op, arg) == Leave(r, op, arg) /\ UNCHANGED loopVars /\ UNCHANGED toolVars

Untrack ==
    /\ phase' = "off"
    /\ after' = <<>>
    /\ finishes' = {}
    /\ backs' = <<>>

\* the values the fields and the observers take
TypeOK ==
    /\ \/ Installed
       \/ \E n \in 0..(MaxPages + 1) :
             items \in [1..n -> [id : 1..n, next_page_id : 0..(n + 1), should_show : BOOLEAN]]
    /\ current_page_index \in Nat
    /\ previous_page_indices_stack \in Seq(Nat)
    /\ Len(previous_page_indices_stack) <= HistoryBound("goToNextPage")
    /\ signals \in Seq({AllFinished, CurrentPageIndexChanged})
    /\ last.op \in {"init", "initialize", "goToNextPage", "goToPreviousPage",
                    "goToPage", "resetState", "atEnd"}
    /\ last.idx \in Nat
    /\ last.stack \in Seq(Nat)
    /\ last.res \in {"none", "moved", "same", "reset", "finished", "raised",
                     "unknown_id", "hung", "empty", "popped"}
    /\ hung \in BOOLEAN
    /\ phase \in {"fwd", "back", "off"}
    /\ after \in Seq(Nat)
    /\ finishes \subseteq 1..Len(after)
    /\ backs \in Seq(Nat)
    /\ pc \in {"idle", "loop", "returned"}
    /\ loop_current_index \in {None} \cup 0..(Len(items) - 1)

\* the per-object settings tool before its __init__ has run
NotLoaded ==
    /\ advanced_mode = FALSE
    /\ multi_extrusion = FALSE
    /\ single_model_selected = FALSE
    /\ active_mode = 0
    /\ global_container_stack = NoStack
    /\ selected_objects = <<>>
    /\ active_extruder = [node \in SceneNodes |-> NoStackId]
    /\ old_extruder_pos = [node \in SceneNodes |-> None]
    /\ seen_stack = NoStack
    /\ tool_signals = <<>>
    /\ tool_enabled = FALSE
    /\ tool_op = "none"

\* __init__: no items yet, index 0, empty stack
Init ==
    /\ items = <<>>
    /\ current_page_index = 0
    /\ previous_page_indices_stack = <<>>
    /\ signals = <<>>
    /\ last = [op |-> "init", arg |-> None, res |-> "none", idx |-> 0, stack |-> <<>>]
    /\ hung = FALSE
    /\ phase = "off"
    /\ after = <<>>
    /\ finishes = {}
    /\ backs = <<>>
    /\ pc = "idle"
    /\ loop_current_index = None
    /\ NotLoaded

\* initialize: the pages are appended and handed to setItems, once
Initialize ==
    /\ items = <<>>
    /\ ~hung
    /\ \/ \E n \in 1..MaxPages : \E pages \in PageLists(n) : items' = pages
       \/ items' = ExamplePages
       \/ \E show \in BOOLEAN : items' = InitializePages(show)
    /\ last' = [op |-> "initialize", arg |-> None, res |-> "none", idx |-> 0, stack |-> <<>>]
    /\ signals' = <<>>
    /\ phase' = "fwd"
    /\ after' = <<>>
    /\ finishes' = {}
    /\ backs' = <<>>
    /\ UNCHANGED <<current_page_index, previous_page_indices_stack, hung>>
    /\ UNCHANGED loopVars
    /\ UNCHANGED toolVars

\* the slot goToNextPage(), called without from_index
GoToNextPage ==
    /\ ~hung
    /\ LET r == goToNextPage(Entry, None)
       IN  /\ Return(r, "goToNextPage", None)
           /\ IF phase = "fwd" /\ Len(after) < Len(items) /\ r.res \notin {"hung", "raised"}
              THEN /\ phase' = "fwd"
                   /\ after' = Append(after, r.idx)
                   /\ finishes' = finishes \cup
                         {k \in {Len(after) + 1} :
                             \E j \in 1..Len(r.sig) : r.sig[j] = AllFinished}
                   /\ backs' = <<>>
              ELSE Untrack

GoToPreviousPage ==
    /\ ~hung
    /\ LET r == goToPreviousPage(Entry)
       IN  /\ Return(r, "goToPreviousPage", None)
           /\ IF phase \in {"fwd", "back"} /\ items # <<>> /\ Len(backs) <= Len(after)
              THEN /\ phase' = "back"
                   /\ backs' = Append(backs, r.idx)
                   /\ UNCHANGED <<after, finishes>>
              ELSE Untrack

GoToPage ==
    /\ ~hung
    /\ \E page_id \in 1..(Len(items) + 1) :
          Return(goToPage(Entry, page_id), "goToPage", page_id)
    /\ Untrack

ResetState ==
    /\ ~hung
    /\ Return(resetState(Entry), "resetState", None)
    /\ Untrack

AtEnd ==
    /\ ~hung
    /\ Return(atEnd(Entry), "atEnd", None)
    /\ Untrack

Next ==
    \/ Initialize
    \/ GoToNextPage
    \/ GoToPreviousPage
    \/ GoToPage
    \/ ResetState
    \/ AtEnd

Spec == Init /\ [][Next]_vars

-----------------------------------------------------------------------------
(* One goToNextPage call followed pass by pass through its while loop, on  *)
(* any page list and from any start index. Nothing but the local           *)
(* current_index changes until the loop is left.                           *)

\* lines 92-96: the call is entered and the local current_index is set
EnterGoToNextPage ==
    /\ pc = "idle"
    /\ items # <<>>
    /\ \E from_index \in {None} \cup 0..(Len(items) - 1) :
          /\ loop_current_index' = IF from_index = None THEN current_page_index
                                                  ELSE from_index
          /\ last' = [op |-> "goToNextPage", arg |-> from_index, res |-> "none",
                      idx |-> current_page_index,
                      stack |-> previous_page_indices_stack]
    /\ pc' = "loop"
    /\ signals' = <<>>
    /\ UNCHANGED <<items, current_page_index, previous_page_indices_stack, hung,
                   phase, after, finishes, backs>>
    /\ UNCHANGED toolVars

\* lines 97-121: one pass of the loop; the pass either goes on to the next
\* one with a new current_index or leaves the method
LoopPass ==
    /\ pc = "loop"
    /\ UNCHANGED toolVars
    /\ LET p == loopPass(loop_current_index)
       IN  IF p.kind = "skip"
           THEN /\ loop_current_index' = p.index
                /\ UNCHANGED <<items, current_page_index, previous_page_indices_stack,
                               signals, last, hung, phase, after, finishes, backs, pc>>
           ELSE /\ Leave(CASE p.kind = "unknown" -> [Entry EXCEPT !.res = "unknown_id"]
                           [] p.kind = "end"     -> atEnd(Entry)
                           [] p.kind = "show"    -> setCurrentPageIndex(Entry, p.index)
                           [] OTHER              -> [Entry EXCEPT !.res = "raised"],
                         "goToNextPage", last.arg)
                /\ pc' = "returned"
                /\ loop_current_index' = None
                /\ UNCHANGED <<phase, after, finishes, backs>>

NextLoop ==
    \/ Initialize
    \/ EnterGoToNextPage
    \/ LoopPass

\* the loop is plain sequential code: a pass that can be made is made
SpecLoop == Init /\ [][NextLoop]_vars /\ WF_vars(LoopPass)

-----------------------------------------------------------------------------
(* PerObjectSettingsTool: its construction and the three events it is      *)
(* connected to, each with the handler it runs.                            *)

\* the tool at the start of a handler
ToolEntry ==
    [advanced_mode         |-> advanced_mode,
     multi_extrusion       |-> multi_extrusion,
     single_model_selected |-> single_model_selected,
     active_extruder       |-> active_extruder,
     emitted               |-> <<>>]

\* the tool a handler leaves behind
ToolReturn(t, op) ==
    /\ advanced_mode' = t.advanced_mode
    /\ multi_extrusion' = t.multi_extrusion
    /\ single_model_selected' = t.single_model_selected
    /\ active_extruder' = t.active_extruder
    /\ tool_signals' = t.emitted
    /\ tool_enabled' = IF t.emitted = <<>> THEN tool_enabled
                                           ELSE t.emitted[Len(t.emitted)]
    /\ tool_op' = op
    /\ UNCHANGED pageVars

\* the values the tool's variables take
ToolTypeOK ==
    /\ advanced_mode \in BOOLEAN
    /\ multi_extrusion \in BOOLEAN
    /\ single_model_selected \in BOOLEAN
    /\ active_mode \in 0..1
    /\ global_container_stack \in GlobalStacks \cup {NoStack}
    /\ selected_objects \in Selections
    /\ \A node \in SceneNodes :
          /\ Len(active_extruder[node]) \in 0..2
          /\ old_extruder_pos[node] \in {None} \cup Positions
    /\ seen_stack \in GlobalStacks \cup {NoStack}
    /\ tool_signals \in Seq(BOOLEAN)
    /\ tool_enabled \in BOOLEAN
    /\ tool_op \in {"none", "construct", "selectionChanged", "preferenceChanged",
                    "globalContainerChanged"}

\* __init__ (lines 17-34), with whatever preference, global stack, selection
\* and scene the application has at that time
Construct ==
    /\ tool_op = "none"
    /\ \E value \in 0..1, stack \in GlobalStacks \cup {NoStack},
          selected \in Selections, positions \in [SceneNodes -> {None} \cup Positions] :
          /\ active_mode' = value
          /\ global_container_stack' = stack
          /\ selected_objects' = selected
          /\ old_extruder_pos' = IF stack = NoStack THEN old_extruder_pos ELSE positions
          /\ seen_stack' = stack
          /\ ToolReturn(onGlobalContainerChanged(
                            onPreferenceChanged(ToolEntry, "cura/active_mode",
                                                value, selected),
                            stack, positions, selected),
                        "construct")

\* Selection.selectionChanged -> _updateEnabled
SelectionChanged ==
    /\ tool_op # "none"
    /\ \E selected \in Selections :
          /\ selected_objects' = selected
          /\ ToolReturn(updateEnabled(ToolEntry, selected), "selectionChanged")
    /\ UNCHANGED <<active_mode, global_container_stack, old_extruder_pos, seen_stack>>

\* Preferences.preferenceChanged -> _onPreferenceChanged
PreferenceChanged ==
    /\ tool_op # "none"
    /\ \E preference \in PreferenceKeys, value \in 0..1 :
          /\ active_mode' = IF preference = "cura/active_mode" THEN value
                                                                ELSE active_mode
          /\ ToolReturn(onPreferenceChanged(ToolEntry, preference, active_mode',
                                            selected_objects),
                        "preferenceChanged")
    /\ UNCHANGED <<global_container_stack, selected_objects, old_extruder_pos,
                   seen_stack>>

\* Application.globalContainerStackChanged -> _onGlobalContainerChanged
GlobalContainerChanged ==
    /\ tool_op # "none"
    /\ \E stack \in GlobalStacks \cup {NoStack},
          positions \in [SceneNodes -> {None} \cup Positions] :
          /\ global_container_stack' = stack
          /\ old_extruder_pos' = IF stack = NoStack THEN old_extruder_pos ELSE positions
          /\ seen_stack' = IF stack = NoStack THEN seen_stack ELSE stack
          /\ ToolReturn(onGlobalContainerChanged(ToolEntry, stack, positions,
                                                 selected_objects),
                        "globalContainerChanged")
    /\ UNCHANGED <<active_mode, selected_objects>>

NextTool ==
    \/ Construct
    \/ SelectionChanged
    \/ PreferenceChanged
    \/ GlobalContainerChanged

SpecTool == Init /\ [][NextTool]_vars

-----------------------------------------------------------------------------
(* Vocabulary of the properties. In the state a slot call leaves behind,   *)
(* last.idx and last.stack are the current index and the history the call  *)
(* started from, last.op and last.arg the slot and its argument.           *)

NumPages == Len(items)

PageIndices == 0..(NumPages - 1)

Emitted(sig, name) == \E j \in 1..Len(sig) : sig[j] = name

Count(sig, name) == Cardinality({j \in 1..Len(sig) : sig[j] = name})

SlotNames == {"goToNextPage", "goToPreviousPage", "goToPage", "resetState", "atEnd"}

\* no page has a next_page_id or a should_show_function returning False
Linear ==
    /\ items # <<>>
    /\ \A i \in PageIndices :
          getItem(i).next_page_id = NoId /\ getItem(i).should_show

Max(S) == CHOOSE x \in S : \A y \in S : x >= y

\* The successor of the page with index i, read off the page list: the index
\* of the page whose id is its next_page_id, None when no page has that id,
\* and i + 1 (possibly the number of pages) when it has no next_page_id.
Successor(i) ==
    LET nid == getItem(i).next_page_id
    IN  IF nid = NoId THEN i + 1
        ELSE IF \E k \in PageIndices : getItem(k).id = nid
        THEN CHOOSE k \in PageIndices : getItem(k).id = nid
        ELSE None

Hidden(i) == i \in PageIndices /\ ~getItem(i).should_show

Shown(i) == i \in PageIndices /\ getItem(i).should_show

\* The pages a walk from page i goes through: the successor of i, then the
\* successor of each hidden page met, up to the first index that is not a
\* hidden page (a page to show, the number of pages, or None). A walk still
\* on a hidden page after NumPages + 1 successors has met one of them twice
\* and goes round for ever.
RECURSIVE WalkFrom(_, _)
WalkFrom(c, n) ==
    IF Hidden(c) /\ n > 0 THEN WalkFrom(Successor(c), n - 1) ELSE c

WalkResult(i) == WalkFrom(Successor(i), NumPages)

\* the walk from page i over hidden pages reaches a page to show
WalkShows(i) == Shown(WalkResult(i))

WalkTarget(i) == WalkResult(i)

\* ... runs off the end of the page list
WalkEnds(i) == WalkResult(i) = NumPages

\* ... meets a next_page_id that no page has
WalkUnknown(i) == WalkResult(i) = None

\* ... goes round hidden pages for ever
WalkCycles(i) == Hidden(WalkResult(i))

\* the page id names a page, and that page is hidden
HiddenTarget(page_id) == \E k \in PageIndices : getItem(k).id = page_id /\ Hidden(k)

TargetIndex(page_id) == CHOOSE k \in PageIndices : getItem(k).id = page_id

\* a sequence without its immediate repetitions
RECURSIVE Distinct(_)
Distinct(q) ==
    IF Len(q) <= 1 THEN q
    ELSE LET d == Distinct(SubSeq(q, 1, Len(q) - 1))
         IN  IF q[Len(q)] = d[Len(d)] THEN d ELSE Append(d, q[Len(q)])

\* the indices that were current during the forward calls: all of them, and
\* those since the last call that completed the sequence
VisitedAll == Distinct(<<0>> \o after)

VisitedSinceFinish ==
    Distinct(<<0>> \o SubSeq(after, Max(finishes \cup {0}) + 1, Len(after)))

\* the j-th backward call went to the j-th last index of V before the last,
\* and calls after that changed nothing
BackwardRetraces(V) ==
    LET d == Len(V) - 1
    IN  \A j \in 1..Len(backs) :
            backs[j] = IF j <= d THEN V[d + 1 - j]
                       ELSE IF j = 1 THEN V[d + 1] ELSE backs[j - 1]

-----------------------------------------------------------------------------
(* C1: no navigation sets current_index to a page whose                    *)
(* should_show_function returns False: after every slot call that emitted  *)
(* currentPageIndexChanged the current page is one that should be shown.   *)
C1_NeverOnHiddenPage ==
    (/\ items # <<>>
     /\ last.op \in SlotNames
     /\ Emitted(signals, CurrentPageIndexChanged))
        => shouldPageBeShown(current_page_index)

(* C2: in a list of N pages without next_page_id and hidden pages, the     *)
(* j-th goToNextPage call from the initial state leaves index j for j < N, *)
(* and allFinished is emitted by the N-th call and by no earlier one.      *)
C2_LinearWalk ==
    (Linear /\ phase \in {"fwd", "back"}) =>
        /\ \A j \in 1..Len(after) : after[j] = (IF j < NumPages THEN j ELSE 0)
        /\ finishes = {j \in 1..Len(after) : j = NumPages}

C2_Witness ==
    /\ Linear
    /\ NumPages = 3
    /\ phase = "fwd"
    /\ after = <<1, 2, 0>>
    /\ finishes = {3}

(* C3 as stated: after k <= N consecutive goToNextPage calls from the      *)
(* initial state, goToPreviousPage calls go back through every index that  *)
(* was visited, in reverse order, and then change nothing.                 *)
C3_RetracesAllVisited ==
    phase = "back" => BackwardRetraces(VisitedAll)

(* C3 as amended: the goToPreviousPage calls go back through the indices   *)
(* visited since the last call that completed the sequence (a completing   *)
(* call clears the history), in reverse order; the history shrinks by one  *)
(* entry per call; a call made with the history exhausted changes nothing  *)
(* and emits nothing.                                                      *)
C3_RetracesSinceFinish ==
    phase = "back" =>
        LET V == VisitedSinceFinish
            d == Len(V) - 1
            m == Len(backs)
        IN  /\ BackwardRetraces(V)
            /\ current_page_index = backs[m]
            /\ previous_page_indices_stack = SubSeq(V, 1, IF m <= d THEN d - m ELSE 0)
            /\ m > d => signals = <<>>
            /\ m <= d => signals = <<CurrentPageIndexChanged>>

C3_Witness ==
    /\ phase = "back"
    /\ NumPages = 3
    /\ after = <<1, 2>>
    /\ backs = <<1, 0, 0>>
    /\ signals = <<>>

(* C4 as stated: goToPage with the id of a hidden page leaves current_index*)
(* on a visible page at or after the requested page. (Stated for the page  *)
(* lists whose first page is visible, where the page a completed sequence  *)
(* resets to is not itself hidden.)                                        *)
C4_LandsAtOrAfter ==
    (last.op = "goToPage" /\ HiddenTarget(last.arg) /\ Shown(0)) =>
        /\ Shown(current_page_index)
        /\ current_page_index >= TargetIndex(last.arg)

(* C4 as amended: goToPage with the id of a hidden page t walks the        *)
(* successors of t (next_page_id when set, else index + 1) over hidden     *)
(* pages. If the walk reaches a visible page, that page becomes current:   *)
(* it is not t, and it is the first visible page after t in list order     *)
(* when no page from t on has a next_page_id. If the walk runs off the end *)
(* the sequence completes (allFinished, index 0, empty history); if it     *)
(* meets an unknown id nothing changes; if it cycles the call never        *)
(* returns.                                                                *)
C4_HiddenTargetWalk ==
    (last.op = "goToPage" /\ HiddenTarget(last.arg)) =>
          LET t == TargetIndex(last.arg)
          IN  /\ WalkShows(t) =>
                    /\ current_page_index = WalkTarget(t)
                    /\ Shown(current_page_index)
                    /\ current_page_index # t
                    /\ (\A k \in t..(NumPages - 1) : getItem(k).next_page_id = NoId)
                          => current_page_index = Min({k \in PageIndices : k > t /\ Shown(k)})
                    /\ ~hung
              /\ WalkEnds(t) =>
                    /\ current_page_index = 0
                    /\ previous_page_indices_stack = <<>>
                    /\ signals = <<AllFinished, CurrentPageIndexChanged>>
              /\ WalkUnknown(t) =>
                    /\ current_page_index = last.idx
                    /\ previous_page_indices_stack = last.stack
                    /\ signals = <<>>
              /\ WalkCycles(t) => hung

C4_Witness ==
    /\ last.op = "goToPage"
    /\ HiddenTarget(last.arg)
    /\ last.res = "moved"
    /\ current_page_index > TargetIndex(last.arg) + 1
    /\ Shown(current_page_index)
    /\ getItem(TargetIndex(last.arg)).next_page_id = NoId

(* C5: resetState leaves current_index 0 and the history empty and emits   *)
(* currentPageIndexChanged once and allFinished not at all, whatever the   *)
(* state it is called in.                                                  *)
C5_ResetState ==
    last.op = "resetState" =>
        /\ current_page_index = 0
        /\ previous_page_indices_stack = <<>>
        /\ signals = <<CurrentPageIndexChanged>>

C5_Witness ==
    /\ last.op = "resetState"
    /\ last.idx > 0
    /\ Len(last.stack) > 1
    /\ current_page_index = 0
    /\ previous_page_indices_stack = <<>>

\* the last call was atEnd, or its walk ran off the end of the page list
Completes ==
    \/ last.op = "atEnd"
    \/ last.op = "goToNextPage" /\ items # <<>> /\ WalkEnds(last.idx)
    \/ last.op = "goToPage" /\ HiddenTarget(last.arg)
          /\ WalkEnds(TargetIndex(last.arg))

(* C6: a call completes the sequence exactly when it is atEnd or its walk  *)
(* (goToNextPage from the current page, goToPage from a hidden page) runs  *)
(* off the end of the page list. A completing call emits allFinished once, *)
(* before the currentPageIndexChanged of the reset, and leaves index 0 and *)
(* an empty history, so that a goToPreviousPage right after it changes     *)
(* nothing; no other call emits allFinished.                               *)
C6_Completion ==
    /\ Completes =>
          /\ signals = <<AllFinished, CurrentPageIndexChanged>>
          /\ current_page_index = 0
          /\ previous_page_indices_stack = <<>>
          /\ LET then == [idx   |-> current_page_index,
                          stack |-> previous_page_indices_stack,
                          sig   |-> <<>>,
                          res   |-> "none"]
             IN  goToPreviousPage(then) = [then EXCEPT !.res = "empty"]
    /\ Emitted(signals, AllFinished) => Completes

C6_Witness ==
    /\ last.op = "goToNextPage"
    /\ last.res = "finished"
    /\ Len(last.stack) > 1
    /\ signals = <<AllFinished, CurrentPageIndexChanged>>
    /\ current_page_index = 0
    /\ previous_page_indices_stack = <<>>

\* the last call was given, or its walk met, a page id that no page has
MeetsUnknownId ==
    \/ last.op = "goToPage" /\ ~\E k \in PageIndices : getItem(k).id = last.arg
    \/ last.op = "goToNextPage" /\ items # <<>> /\ WalkUnknown(last.idx)
    \/ last.op = "goToPage" /\ HiddenTarget(last.arg)
          /\ WalkUnknown(TargetIndex(last.arg))

(* C7: a call that meets an unknown page id - goToPage with an id no page  *)
(* has, or a walk (goToNextPage from the current page, goToPage from a     *)
(* hidden page) that reaches a next_page_id no page has, on its first page *)
(* or on a hidden page further on - leaves current_index and the history   *)
(* as they were and emits nothing.                                         *)
C7_UnknownIdAborts ==
    MeetsUnknownId =>
          /\ current_page_index = last.idx
          /\ previous_page_indices_stack = last.stack
          /\ signals = <<>>
          /\ ~hung

C7_Witness ==
    /\ last.op = "goToNextPage"
    /\ last.res = "unknown_id"
    /\ Len(last.stack) > 0
    /\ Hidden(Successor(last.idx))
    /\ current_page_index = last.idx
    /\ previous_page_indices_stack = last.stack
    /\ signals = <<>>

(* C8: with a non-empty page list, current_index and every index on the    *)
(* history stack lie in 0 .. number of pages - 1.                          *)
C8_IndicesInRange ==
    items # <<>> =>
        /\ current_page_index \in PageIndices
        /\ \A k \in 1..Len(previous_page_indices_stack) :
              previous_page_indices_stack[k] \in PageIndices

C8_Witness ==
    /\ NumPages = 3
    /\ current_page_index = 2
    /\ previous_page_indices_stack = <<0, 1>>
    /\ last.op = "goToNextPage"

\* the forward calls on [A, B(next = D), C, D] give B, D, completion, B
ExampleWalk ==
    (items = ExamplePages /\ phase \in {"fwd", "back"}) =>
        \A j \in 1..Len(after) :
            /\ after[j] = <<1, 3, 0, 1>>[j]
            /\ j \in finishes <=> j = 3

(* C9: with no hidden pages, goToNextPage goes to the page whose id is the *)
(* current page's next_page_id when it has one and to index + 1 otherwise, *)
(* completing when that is the number of pages; for [A, B(next = D), C, D] *)
(* the calls from A give B, then D, then completion with allFinished and   *)
(* index 0 (and B again after that): C is never current.                   *)
C9_SuccessorResolution ==
    /\ (/\ last.op = "goToNextPage"
        /\ items # <<>>
        /\ \A k \in PageIndices : Shown(k)) =>
           LET c == Successor(last.idx)
           IN  /\ c \in PageIndices => current_page_index = c
               /\ c = NumPages =>
                     /\ current_page_index = 0
                     /\ Count(signals, AllFinished) = 1
               /\ c = None => current_page_index = last.idx
               /\ c # NumPages => ~Emitted(signals, AllFinished)
    /\ ExampleWalk

C9_Witness ==
    /\ items = ExamplePages
    /\ phase = "fwd"
    /\ after = <<1, 3, 0>>
    /\ finishes = {3}
    /\ current_page_index = 0
    /\ signals = <<AllFinished, CurrentPageIndexChanged>>

\* the page the last call's walk started from, whether the walk reached a
\* page to show, and the effect of moving to it
WalkStart ==
    IF last.op = "goToNextPage" THEN last.idx ELSE TargetIndex(last.arg)

EndsOnCandidate ==
    /\ \/ last.op = "goToNextPage" /\ items # <<>>
       \/ last.op = "goToPage" /\ HiddenTarget(last.arg)
    /\ WalkShows(WalkStart)

PushesAndMoves ==
    /\ previous_page_indices_stack = Append(last.stack, last.idx)
    /\ current_page_index = WalkTarget(WalkStart)
    /\ signals = <<CurrentPageIndexChanged>>

(* C10 as stated: every walk that ends on a visible candidate page         *)
(* (goToNextPage from the current page, or from the hidden page goToPage   *)
(* passes as from_index) pushes the index that was current before the call *)
(* once, makes the candidate current and emits currentPageIndexChanged     *)
(* once, also when the candidate is the page that was already current.     *)
C10_AlwaysPushes ==
    EndsOnCandidate => PushesAndMoves

(* C10 as amended: such a walk pushes the index that was current before    *)
(* the call once, makes the candidate current and emits                    *)
(* currentPageIndexChanged once when the candidate differs from the page   *)
(* that was current; when the candidate is the current page the call       *)
(* changes neither current_index nor the history and emits nothing.        *)
C10_PushesUnlessSame ==
    EndsOnCandidate =>
          IF WalkTarget(WalkStart) # last.idx
          THEN PushesAndMoves
          ELSE /\ current_page_index = last.idx
               /\ previous_page_indices_stack = last.stack
               /\ signals = <<>>

C10_Witness ==
    /\ last.op = "goToPage"
    /\ HiddenTarget(last.arg)
    /\ TargetIndex(last.arg) # last.idx
    /\ last.res = "moved"
    /\ Len(last.stack) = 1
    /\ previous_page_indices_stack = Append(last.stack, last.idx)
    /\ current_page_index \notin {last.idx, TargetIndex(last.arg)}
    /\ signals = <<CurrentPageIndexChanged>>

\* the page id names a page, and that page is to be shown
VisibleTarget(page_id) == \E k \in PageIndices : getItem(k).id = page_id /\ Shown(k)

\* the last call pushed the index it started from and went to page_index
JumpsTo(page_index) ==
    /\ previous_page_indices_stack = Append(last.stack, last.idx)
    /\ current_page_index = page_index
    /\ signals = <<CurrentPageIndexChanged>>

\* the last call changed neither the index nor the history and emitted nothing
ChangedNothing ==
    /\ current_page_index = last.idx
    /\ previous_page_indices_stack = last.stack
    /\ signals = <<>>

(* C11 as stated: goToPage with the id of a visible page pushes the        *)
(* previous current_index, makes that page current without following its   *)
(* next_page_id, and emits currentPageIndexChanged, for every target, the  *)
(* page that is already current included.                                  *)
C11_AlwaysJumps ==
    (last.op = "goToPage" /\ VisibleTarget(last.arg)) =>
        JumpsTo(TargetIndex(last.arg))

(* C11 as amended: goToPage with the id of a visible page other than the   *)
(* current one pushes the previous current_index, makes that page current  *)
(* without following its next_page_id, and emits currentPageIndexChanged   *)
(* once; with the id of the page that is already current it changes        *)
(* neither current_index nor the history and emits nothing.                *)
C11_JumpsUnlessCurrent ==
    (last.op = "goToPage" /\ VisibleTarget(last.arg)) =>
        IF TargetIndex(last.arg) # last.idx
        THEN JumpsTo(TargetIndex(last.arg))
        ELSE ChangedNothing

C11_Witness ==
    /\ last.op = "goToPage"
    /\ VisibleTarget(last.arg)
    /\ TargetIndex(last.arg) # last.idx
    /\ getItem(TargetIndex(last.arg)).next_page_id # NoId
    /\ Successor(TargetIndex(last.arg)) \in PageIndices \ {TargetIndex(last.arg)}
    /\ Len(last.stack) = 1
    /\ JumpsTo(TargetIndex(last.arg))

(* C12: goToPreviousPage with a non-empty history makes the newest entry   *)
(* current, whether or not that page should be shown, removes that entry   *)
(* and no other, and emits currentPageIndexChanged once; with an empty     *)
(* history it changes nothing and emits nothing.                           *)
C12_PreviousPage ==
    last.op = "goToPreviousPage" =>
        IF last.stack = <<>>
        THEN ChangedNothing
        ELSE /\ current_page_index = last.stack[Len(last.stack)]
             /\ previous_page_indices_stack = SubSeq(last.stack, 1, Len(last.stack) - 1)
             /\ signals = <<CurrentPageIndexChanged>>

C12_Witness ==
    /\ last.op = "goToPreviousPage"
    /\ last.stack = <<0>>
    /\ last.idx # 0
    /\ Hidden(0)
    /\ current_page_index = 0
    /\ previous_page_indices_stack = <<>>
    /\ signals = <<CurrentPageIndexChanged>>

(* C15: the newest entry of the history differs from current_index and no  *)
(* two neighbouring entries are equal, so that goToPreviousPage with a     *)
(* non-empty history always changes the page shown.                        *)
C15_NoRepeatedEntries ==
    LET h == Append(previous_page_indices_stack, current_page_index)
    IN  /\ \A k \in 1..(Len(h) - 1) : h[k] # h[k + 1]
        /\ previous_page_indices_stack # <<>> =>
              goToPreviousPage(Entry).idx # current_page_index

C15_Witness ==
    /\ previous_page_indices_stack = <<0, 1>>
    /\ current_page_index = 0
    /\ last.op = "goToPage"

\* the call followed pass by pass is inside its loop
InLoop == pc = "loop"

\* The chain of successors from page c through hidden pages comes back to a
\* page it has been on (seen: the hidden pages met so far).
RECURSIVE Revisits(_, _)
Revisits(c, seen) ==
    IF ~Hidden(c) THEN FALSE
    ELSE IF c \in seen THEN TRUE
    ELSE Revisits(Successor(c), seen \cup {c})

\* ... from the successor of the page the loop is on
ChainRevisits == loop_current_index # None /\ Revisits(Successor(loop_current_index), {})

(* C13: the loop of goToNextPage is left - on a page to show, by           *)
(* completing, or on an unknown next_page_id - whenever the chain of       *)
(* successors through hidden pages from its start does not revisit a page, *)
(* and is never left when that chain runs into a cycle of hidden pages.    *)
(* (A chain that does not revisit a page keeps that property from pass to  *)
(* pass, so the first conjunct says that such a loop is left.)             *)
C13_LoopTermination ==
    /\ <>[]~(InLoop /\ ~ChainRevisits)
    /\ [][(InLoop /\ ChainRevisits) => (InLoop' /\ ChainRevisits')]_vars
    /\ [][(InLoop /\ ~InLoop') =>
            last'.res \in {"moved", "same", "finished", "unknown_id"}]_vars

C13_Witness ==
    /\ InLoop
    /\ ChainRevisits
    /\ last.arg = None
    /\ Shown(last.idx)
    /\ Hidden(loop_current_index)
    /\ Successor(loop_current_index) # loop_current_index

\* The indices goToNextPage makes current, call after call, starting on
\* welcome (index 0) with the pages of initialize(); the last call of a round
\* completes the sequence and leaves index 0.
InstalledWalk ==
    IF items[7].should_show THEN <<1, 2, 3, 4, 6, 7, 0>> ELSE <<1, 2, 3, 4, 7, 0>>

(* C14: with the pages of initialize(), goToNextPage called repeatedly     *)
(* from welcome shows user_agreement, whats_new, data_collections,         *)
(* add_network_or_local_printer, machine_actions if and only if            *)
(* shouldShowMachineActions returns true, cloud, and then completes; no    *)
(* goToNextPage call ends on add_printer_by_ip (index 5), and from that    *)
(* page goToNextPage goes to machine_actions (6), or to cloud (7) when     *)
(* machine_actions is hidden.                                              *)
C14_InstalledSequence ==
    Installed =>
        /\ phase \in {"fwd", "back"} =>
              /\ \A k \in 1..Len(after) :
                    after[k] = InstalledWalk[((k - 1) % Len(InstalledWalk)) + 1]
              /\ finishes = {k \in 1..Len(after) : k % Len(InstalledWalk) = 0}
        /\ last.op = "goToNextPage" =>
              /\ current_page_index # 5
              /\ last.res \in {"moved", "finished"}
              /\ last.idx = 5 =>
                    /\ current_page_index = IF Shown(6) THEN 6 ELSE 7
                    /\ previous_page_indices_stack = Append(last.stack, 5)

C14_Witness ==
    /\ Installed
    /\ Hidden(6)
    /\ phase = "fwd"
    /\ after = <<1, 2, 3, 4, 7, 0>>
    /\ finishes = {6}
    /\ last.stack = <<0, 1, 2, 3, 4>>
    /\ signals = <<AllFinished, CurrentPageIndexChanged>>

\* the last call was goToNextPage or goToPage and returned without aborting
\* on an unknown id and without completing the sequence
NavigatedOn ==
    /\ last.op \in {"goToNextPage", "goToPage"}
    /\ last.res \in {"moved", "same"}

\* goToPreviousPage, called now, gives back the index and the history the
\* last call started from
PreviousRestores ==
    LET r == goToPreviousPage(Entry)
    IN  r.idx = last.idx /\ r.stack = last.stack

(* C16 as stated: after a goToNextPage or goToPage call that neither       *)
(* aborted nor completed, an immediate goToPreviousPage restores the       *)
(* current_index and the history that held before that call.               *)
C16_PreviousUndoes ==
    NavigatedOn => PreviousRestores

(* C16 as amended: after a goToNextPage or goToPage call that changed      *)
(* current_index, an immediate goToPreviousPage restores the current_index *)
(* and the history that held before that call; after a call that resolved  *)
(* to the page already current (and so pushed nothing) goToPreviousPage    *)
(* instead goes to the newest entry of the unchanged history, if any.      *)
C16_PreviousUndoesMoves ==
    NavigatedOn =>
        IF last.res = "moved"
        THEN current_page_index # last.idx /\ PreviousRestores
        ELSE /\ ChangedNothing
             /\ last.stack # <<>> =>
                   /\ goToPreviousPage(Entry).idx = last.stack[Len(last.stack)]
                   /\ goToPreviousPage(Entry).idx # last.idx
             /\ last.stack = <<>> => PreviousRestores

C16_Witness ==
    /\ last.op = "goToNextPage"
    /\ last.res = "moved"
    /\ Len(last.stack) = 1
    /\ current_page_index > last.idx + 1
    /\ PreviousRestores

\* the selection holds at most one object, and no group
NoneOrOneModel ==
    \/ Len(selected_objects) = 0
    \/ Len(selected_objects) = 1 /\ ~selected_objects[1]

(* C17 as stated: once the tool is constructed, the latest                 *)
(* toolEnabledChanged carries true exactly when (cura/active_mode is 1 or  *)
(* the current global stack has machine_extruder_count > 1) and exactly    *)
(* one object, not a group, is selected; so it carries false when nothing  *)
(* is selected and when there is no global stack.                          *)
C17_EnabledExactlyWhen ==
    tool_op # "none" =>
        /\ tool_enabled =
              (/\ active_mode = 1 \/ global_container_stack.machine_extruder_count > 1
               /\ Len(selected_objects) = 1
               /\ ~selected_objects[1])
        /\ Len(selected_objects) = 0 => ~tool_enabled
        /\ global_container_stack = NoStack => ~tool_enabled

(* C17 as amended: once the tool is constructed, the latest                *)
(* toolEnabledChanged carries true exactly when (cura/active_mode is 1 or  *)
(* the last global stack that was not None had machine_extruder_count > 1) *)
(* and the selection is empty or is one object that is not a group.        *)
C17_EnabledUnlessManyOrGroup ==
    tool_op # "none" =>
        tool_enabled =
            (/\ active_mode = 1 \/ seen_stack.machine_extruder_count > 1
             /\ NoneOrOneModel)

C17_Witness ==
    /\ tool_op = "selectionChanged"
    /\ selected_objects = <<>>
    /\ active_mode = 0
    /\ global_container_stack = NoStack
    /\ seen_stack.machine_extruder_count > 1
    /\ tool_signals = <<TRUE>>
    /\ tool_enabled

\* the id _onGlobalContainerChanged is to give a node that has no extruder
\* stack of its own on the new machine
DefaultStackId ==
    IF global_container_stack.machine_extruder_count > 1
       /\ 0 \in global_container_stack.trains
    THEN <<global_container_stack.id[1], 0>>
    ELSE global_container_stack.id

\* the id it is to give the node
NewStackId(node) ==
    IF old_extruder_pos[node] \in global_container_stack.trains
    THEN <<global_container_stack.id[1], old_extruder_pos[node]>>
    ELSE DefaultStackId

(* C18: a change of the global container stack to a stack that is not None *)
(* gives every scene node the id of the new machine's extruder stack at    *)
(* the node's old extruder position when the node has a position and a     *)
(* stack exists there, and otherwise the default id: the global stack's id *)
(* on a single-extrusion machine, else the id of extruder stack 0, or the  *)
(* global stack's id if there is none. A change to None touches no node,   *)
(* keeps _multi_extrusion and emits no toolEnabledChanged.                 *)
C18_GlobalContainerChanged ==
    [][tool_op' = "globalContainerChanged" =>
         IF global_container_stack' = NoStack
         THEN /\ UNCHANGED <<active_extruder, multi_extrusion, tool_enabled>>
              /\ tool_signals' = <<>>
         ELSE /\ \A node \in SceneNodes : active_extruder'[node] = NewStackId(node)'
              /\ multi_extrusion' = (global_container_stack'.machine_extruder_count > 1)
              /\ Len(tool_signals') = 1]_vars

C18_Witness ==
    /\ tool_op = "globalContainerChanged"
    /\ global_container_stack.machine_extruder_count > 1
    /\ seen_stack = global_container_stack
    /\ global_container_stack.id = <<"machine_b">>
    /\ old_extruder_pos["node_a"] = 1
    /\ active_extruder["node_a"] = <<"machine_b", 1>>
    /\ multi_extrusion
    /\ Len(tool_signals) = 1

=============================================================================
